---- MODULE Spec2Model ----
(***************************************************************************)
(* Model of pptx2img.topng (src/lib/pptx2img/pptx2img.py).                 *)
(*                                                                         *)
(* One call of topng is a sequential process.  Each action is one step of  *)
(* the function up to its next call on the outside world (filesystem,      *)
(* PowerPoint automation object, user32), whose outcome (success, raised   *)
(* exception, returned value) is chosen by the environment.                *)
(*                                                                         *)
(* Real numbers (slide size in points, the scale argument) are exact       *)
(* rationals <<n, d>> with d > 0; int() is truncation toward zero.         *)
(***************************************************************************)
EXTENDS Integers, Sequences, FiniteSets

(* ------------------------------ bounds --------------------------------- *)
\* largest slide count the document may report
MaxSlides == 2
\* slide width/height are n/2 points, n in 2..MaxDim + 1 (at least one point)
MaxDim == 3
\* screen width/height in pixels: 1..MaxScreen
MaxScreen == 3
\* scale argument n/d with |n| <= MaxScaleNum, 1 <= d <= MaxScaleDen
MaxScaleNum == 2
MaxScaleDen == 2

(* ----------------------------- rationals ------------------------------- *)
RMul(x, y) == <<x[1] * y[1], x[2] * y[2]>>
\* x / y for y > 0
RDiv(x, y) == <<x[1] * y[2], x[2] * y[1]>>
RGeq(x, y) == x[1] * y[2] >= y[1] * x[2]
RInt(k) == <<k, 1>>

\* a plausible slip: floor instead of truncation toward zero
PyIntFloor(x) == x[1] \div x[2]
\* Python int(float): truncation toward zero
PyInt(x) == IF x[1] >= 0 THEN x[1] \div x[2] ELSE -((-x[1]) \div x[2])

PyMax(a, b) == IF a >= b THEN a ELSE b
PyMin(a, b) == IF a <= b THEN a ELSE b

(* ------------------------------ inputs --------------------------------- *)
Gcd1(n, d) == \A k \in 2..d : ~(n % k = 0 /\ d % k = 0)

\* the scale argument: None, a number n/d, or float('nan')
ScaleNone == [kind |-> "none", n |-> 0, d |-> 1]
ScaleNaN  == [kind |-> "nan", n |-> 0, d |-> 1]
ScaleArgs ==
    {ScaleNone, ScaleNaN} \cup
    {[kind |-> "num", n |-> a, d |-> b] :
        <<a, b>> \in {p \in ((-MaxScaleNum)..MaxScaleNum) \X (1..MaxScaleDen) :
                        Gcd1(IF p[1] >= 0 THEN p[1] ELSE -p[1], p[2])
                        /\ (p[1] = 0 => p[2] = 1)}}

\* the range argument: None, a list, a tuple, or a callable (the builtin range)
RangeVals == 0..(MaxSlides + 1)
Const(len, v) == [k \in 1..len |-> v]
RangeNone == [kind |-> "none", elems |-> <<>>]
RangeBuiltin == [kind |-> "builtin", elems |-> <<>>]
RangeArgs ==
    {RangeNone, RangeBuiltin} \cup
    {[kind |-> k, elems |-> <<a, b>>] :
        k \in {"list", "tuple"}, a \in RangeVals, b \in RangeVals} \cup
    {[kind |-> "list", elems |-> Const(len, v)] : len \in {0, 1, 3}, v \in {1, MaxSlides}}

DimVals == {<<n, 2>> : n \in 2..(MaxDim + 1)}

(* ------------------------------- state --------------------------------- *)
VARIABLES
    pptx_exists,    \* os.path.exists(pptx_path)
    out_exists,     \* os.path.exists(output_path) at entry
    rangeArg,       \* parameter `range`
    scale,          \* parameter `scale`
    pc,             \* position in topng, or "returned" / "raised"
    dirCreated,     \* os.makedirs(output_path) succeeded
    powerpoint,     \* local `powerpoint`: "None" or "app"
    presentation,   \* local `presentation`: "None" or "doc"
    calls,          \* calls made on the automation interface, in order
    total_slides, start_slide, end_slide,
    slide_width, slide_height,
    target_w, target_h,
    screen_w, screen_h, \* GetSystemMetrics(0), (1); 0 until the query succeeds
    queryFailed,    \* the ctypes screen query raised
    i,              \* next slide index of the export loop
    count,
    attempted,      \* slide indices on which Export was called, in order
    exported,       \* slide indices whose Export returned, in order
    msgs            \* printed messages, in order

vars == <<pptx_exists, out_exists, rangeArg, scale, pc, dirCreated, powerpoint,
          presentation, calls, total_slides, start_slide, end_slide,
          slide_width, slide_height, target_w, target_h, screen_w, screen_h,
          queryFailed, i, count, attempted, exported, msgs>>

args == <<pptx_exists, out_exists, rangeArg, scale>>
rangeVars == <<total_slides, start_slide, end_slide>>
geomVars == <<slide_width, slide_height, target_w, target_h,
             screen_w, screen_h, queryFailed>>
loopVars == <<i, count, attempted, exported>>

ErrorMsgs == {"not_found", "init_error", "init_details", "conversion_error"}

Init ==
    /\ pptx_exists \in BOOLEAN
    /\ out_exists \in BOOLEAN
    /\ rangeArg \in RangeArgs
    /\ scale \in ScaleArgs
    /\ pc = "check_input"
    /\ dirCreated = FALSE
    /\ powerpoint = "None"
    /\ presentation = "None"
    /\ calls = <<>>
    /\ total_slides = 0 /\ start_slide = 0 /\ end_slide = 0
    /\ slide_width = <<0, 1>> /\ slide_height = <<0, 1>>
    /\ target_w = 0 /\ target_h = 0
    /\ screen_w = 0 /\ screen_h = 0
    /\ queryFailed = FALSE
    /\ i = 0 /\ count = 0
    /\ attempted = <<>> /\ exported = <<>>
    /\ msgs = <<>>

(* --------------------- decisions taken by the code --------------------- *)
\* a plausible slip: no existence check
InputMissingIgnored(exists) == FALSE
\* line 29: `if not os.path.exists(pptx_path)`
InputMissing(exists) == ~exists

\* Python truth value of the range argument
RangeTruthy(r) == r.kind = "builtin" \/ (r.kind \in {"list", "tuple"} /\ Len(r.elems) > 0)
\* a plausible slip: any two-element sequence is taken as a range
UsesRangeAnySeq(r) == RangeTruthy(r) /\ r.kind \in {"list", "tuple"} /\ Len(r.elems) = 2
\* line 56: `if range and isinstance(range, list) and len(range) == 2`
UsesRange(r) == RangeTruthy(r) /\ r.kind = "list" /\ Len(r.elems) = 2

\* lines 53-58
StartSlide(r, total) == IF UsesRange(r) THEN PyMax(1, r.elems[1]) ELSE 1
EndSlide(r, total) == IF UsesRange(r) THEN PyMin(total, r.elems[2]) ELSE total

\* Python truth value of the scale argument (nan is true, 0 and None are false)
ScaleTruthy(s) == s.kind = "nan" \/ (s.kind = "num" /\ s.n # 0)
ScaleValue(s) == <<s.n, s.d>>

\* a plausible slip: the short edge of the screen
ScreenShort(w, h) == PyMin(w, h)
\* line 75
ScreenLong(w, h) == PyMax(w, h)

\* lines 78-85: <<target_w, target_h>> from the screen's long edge
AutoSize(w, h, long) ==
    LET slide_ratio == RDiv(w, h)
    IN  IF RGeq(slide_ratio, RInt(1))
        THEN <<long, PyInt(RDiv(RInt(long), slide_ratio))>>
        ELSE <<PyInt(RMul(RInt(long), slide_ratio)), long>>

\* a plausible slip: fallback at the slide's own size
FallbackSizeUnscaled(w, h) == <<PyInt(w), PyInt(h)>>
\* lines 90-91
FallbackSize(w, h) == <<PyInt(RMul(w, RInt(2))), PyInt(RMul(h, RInt(2)))>>

\* lines 95-96
ManualSize(w, h, s) == <<PyInt(RMul(w, ScaleValue(s))), PyInt(RMul(h, ScaleValue(s)))>>

\* line 105 calls the parameter `range`, which shadows the builtin: only a
\* callable argument (here the builtin range itself) can be called
RangeCallable(r) == r.kind = "builtin"

\* a plausible slip: counting the slide before exporting it
CountCountingFailure(c, ok) == c + 1
\* line 113: count += 1 is reached only when Export returned
CountAfterExport(c, ok) == IF ok THEN c + 1 ELSE c

\* a plausible slip: cleanup at the end of the try block instead of finally
AfterExceptSkipCleanup == "returned"
\* lines 118-120: after the except clause control enters the finally clause
AfterExcept == "finally"

\* line 122: `if presentation`
NeedsClose(p) == p # "None"

(* ------------------------------ actions -------------------------------- *)
\* lines 118-119: an exception raised inside the try block
Caught ==
    /\ msgs' = Append(msgs, "conversion_error")
    /\ pc' = AfterExcept

\* lines 29-31
CheckInputMissing ==
    /\ pc = "check_input"
    /\ InputMissing(pptx_exists)
    /\ msgs' = Append(msgs, "not_found")
    /\ pc' = "returned"
    /\ UNCHANGED <<args, dirCreated, powerpoint, presentation, calls,
                   rangeVars, geomVars, loopVars>>

CheckInputOK ==
    /\ pc = "check_input"
    /\ ~InputMissing(pptx_exists)
    /\ pc' = "makedirs"
    /\ UNCHANGED <<args, dirCreated, powerpoint, presentation, calls,
                   rangeVars, geomVars, loopVars, msgs>>

\* line 33, directory already there
OutputDirExists ==
    /\ pc = "makedirs"
    /\ out_exists
    /\ pc' = "dispatch"
    /\ UNCHANGED <<args, dirCreated, powerpoint, presentation, calls,
                   rangeVars, geomVars, loopVars, msgs>>

\* lines 33-35
MakedirsOK ==
    /\ pc = "makedirs"
    /\ ~out_exists
    /\ dirCreated' = TRUE
    /\ msgs' = Append(msgs, "created_dir")
    /\ pc' = "dispatch"
    /\ UNCHANGED <<args, powerpoint, presentation, calls,
                   rangeVars, geomVars, loopVars>>

\* line 34 raises (OSError); it is outside every try block
MakedirsFails ==
    /\ pc = "makedirs"
    /\ ~out_exists
    /\ pc' = "raised"
    /\ UNCHANGED <<args, dirCreated, powerpoint, presentation, calls,
                   rangeVars, geomVars, loopVars, msgs>>

\* line 41
DispatchOK ==
    /\ pc = "dispatch"
    /\ calls' = Append(calls, "Dispatch")
    /\ powerpoint' = "app"
    /\ pc' = "open"
    /\ UNCHANGED <<args, dirCreated, presentation,
                   rangeVars, geomVars, loopVars, msgs>>

\* lines 41-45
DispatchFails ==
    /\ pc = "dispatch"
    /\ calls' = Append(calls, "Dispatch")
    /\ msgs' = msgs \o <<"init_error", "init_details">>
    /\ pc' = "returned"
    /\ UNCHANGED <<args, dirCreated, powerpoint, presentation,
                   rangeVars, geomVars, loopVars>>

\* line 49
OpenOK ==
    /\ pc = "open"
    /\ calls' = Append(calls, "Open")
    /\ presentation' = "doc"
    /\ pc' = "range"
    /\ UNCHANGED <<args, dirCreated, powerpoint,
                   rangeVars, geomVars, loopVars, msgs>>

OpenFails ==
    /\ pc = "open"
    /\ calls' = Append(calls, "Open")
    /\ Caught
    /\ UNCHANGED <<args, dirCreated, powerpoint, presentation,
                   rangeVars, geomVars, loopVars>>

\* lines 52-58
ReadCountOK ==
    /\ pc = "range"
    /\ \E n \in 0..MaxSlides :
        /\ total_slides' = n
        /\ start_slide' = StartSlide(rangeArg, n)
        /\ end_slide' = EndSlide(rangeArg, n)
    /\ calls' = Append(calls, "Slides.Count")
    /\ pc' = "pagesize"
    /\ UNCHANGED <<args, dirCreated, powerpoint, presentation,
                   geomVars, loopVars, msgs>>

ReadCountFails ==
    /\ pc = "range"
    /\ calls' = Append(calls, "Slides.Count")
    /\ Caught
    /\ UNCHANGED <<args, dirCreated, powerpoint, presentation,
                   rangeVars, geomVars, loopVars>>

\* lines 61-65
ReadPageSizeOK ==
    /\ pc = "pagesize"
    /\ slide_width' \in DimVals
    /\ slide_height' \in DimVals
    /\ calls' = Append(calls, "PageSetup")
    /\ pc' = "geometry"
    /\ UNCHANGED <<args, dirCreated, powerpoint, presentation, rangeVars,
                   target_w, target_h, screen_w, screen_h, queryFailed,
                   loopVars, msgs>>

ReadPageSizeFails ==
    /\ pc = "pagesize"
    /\ calls' = Append(calls, "PageSetup")
    /\ Caught
    /\ UNCHANGED <<args, dirCreated, powerpoint, presentation,
                   rangeVars, geomVars, loopVars>>

\* lines 99-101
Announce(mode) == msgs' = msgs \o <<mode, "processing", "target_size", "converting">>

\* lines 68-87, then 99-101
GeometryAuto ==
    /\ pc = "geometry"
    /\ ~ScaleTruthy(scale)
    /\ screen_w' \in 1..MaxScreen
    /\ screen_h' \in 1..MaxScreen
    /\ LET screen_long == ScreenLong(screen_w', screen_h')
       IN  /\ target_w' = AutoSize(slide_width, slide_height, screen_long)[1]
           /\ target_h' = AutoSize(slide_width, slide_height, screen_long)[2]
    /\ Announce("mode_auto")
    /\ pc' = "loop"
    /\ UNCHANGED <<args, dirCreated, powerpoint, presentation, calls, rangeVars,
                   slide_width, slide_height, queryFailed, loopVars>>

\* lines 68-72 raise, 88-92, then 99-101
GeometryFallback ==
    /\ pc = "geometry"
    /\ ~ScaleTruthy(scale)
    /\ queryFailed' = TRUE
    /\ target_w' = FallbackSize(slide_width, slide_height)[1]
    /\ target_h' = FallbackSize(slide_width, slide_height)[2]
    /\ Announce("mode_fallback")
    /\ pc' = "loop"
    /\ UNCHANGED <<args, dirCreated, powerpoint, presentation, calls, rangeVars,
                   slide_width, slide_height, screen_w, screen_h, loopVars>>

\* lines 93-97, then 99-101
GeometryManual ==
    /\ pc = "geometry"
    /\ ScaleTruthy(scale)
    /\ scale.kind = "num"
    /\ target_w' = ManualSize(slide_width, slide_height, scale)[1]
    /\ target_h' = ManualSize(slide_width, slide_height, scale)[2]
    /\ Announce("mode_manual")
    /\ pc' = "loop"
    /\ UNCHANGED <<args, dirCreated, powerpoint, presentation, calls, rangeVars,
                   slide_width, slide_height, screen_w, screen_h, queryFailed,
                   loopVars>>

\* line 95 with scale = nan: int(nan) raises ValueError
GeometryRaises ==
    /\ pc = "geometry"
    /\ ScaleTruthy(scale)
    /\ scale.kind = "nan"
    /\ Caught
    /\ UNCHANGED <<args, dirCreated, powerpoint, presentation, calls,
                   rangeVars, geomVars, loopVars>>

\* lines 104-105: count = 0, then the call range(start_slide, end_slide + 1)
CallRange ==
    /\ pc = "loop"
    /\ RangeCallable(rangeArg)
    /\ count' = 0
    /\ i' = start_slide
    /\ pc' = "iter"
    /\ UNCHANGED <<args, dirCreated, powerpoint, presentation, calls,
                   rangeVars, geomVars, attempted, exported, msgs>>

\* line 105 with a range argument that is not callable: TypeError
CallRangeTypeError ==
    /\ pc = "loop"
    /\ ~RangeCallable(rangeArg)
    /\ count' = 0
    /\ Caught
    /\ UNCHANGED <<args, dirCreated, powerpoint, presentation, calls,
                   rangeVars, geomVars, i, attempted, exported>>

\* lines 106-114, Export returns
ExportOK ==
    /\ pc = "iter"
    /\ i <= end_slide
    /\ calls' = Append(calls, "Export")
    /\ attempted' = Append(attempted, i)
    /\ exported' = Append(exported, i)
    /\ count' = CountAfterExport(count, TRUE)
    /\ msgs' = Append(msgs, "saved")
    /\ i' = i + 1
    /\ UNCHANGED <<args, pc, dirCreated, powerpoint, presentation,
                   rangeVars, geomVars>>

\* lines 106-112, Export raises
ExportFails ==
    /\ pc = "iter"
    /\ i <= end_slide
    /\ calls' = Append(calls, "Export")
    /\ attempted' = Append(attempted, i)
    /\ count' = CountAfterExport(count, FALSE)
    /\ Caught
    /\ UNCHANGED <<args, dirCreated, powerpoint, presentation,
                   rangeVars, geomVars, i, exported>>

\* line 116
LoopDone ==
    /\ pc = "iter"
    /\ i > end_slide
    /\ msgs' = Append(msgs, "done")
    /\ pc' = "finally"
    /\ UNCHANGED <<args, dirCreated, powerpoint, presentation, calls,
                   rangeVars, geomVars, loopVars>>

\* lines 120-123, Close returns
FinallyClose ==
    /\ pc = "finally"
    /\ NeedsClose(presentation)
    /\ calls' = Append(calls, "Close")
    /\ pc' = "returned"
    /\ UNCHANGED <<args, dirCreated, powerpoint, presentation,
                   rangeVars, geomVars, loopVars, msgs>>

\* line 123 raises inside the finally clause: nothing catches it
FinallyCloseFails ==
    /\ pc = "finally"
    /\ NeedsClose(presentation)
    /\ calls' = Append(calls, "Close")
    /\ pc' = "raised"
    /\ UNCHANGED <<args, dirCreated, powerpoint, presentation,
                   rangeVars, geomVars, loopVars, msgs>>

\* lines 120-122 with presentation still None
FinallyNoClose ==
    /\ pc = "finally"
    /\ ~NeedsClose(presentation)
    /\ pc' = "returned"
    /\ UNCHANGED <<args, dirCreated, powerpoint, presentation, calls,
                   rangeVars, geomVars, loopVars, msgs>>

Next ==
    \/ CheckInputMissing \/ CheckInputOK
    \/ OutputDirExists \/ MakedirsOK \/ MakedirsFails
    \/ DispatchOK \/ DispatchFails
    \/ OpenOK \/ OpenFails
    \/ ReadCountOK \/ ReadCountFails
    \/ ReadPageSizeOK \/ ReadPageSizeFails
    \/ GeometryAuto \/ GeometryFallback \/ GeometryManual \/ GeometryRaises
    \/ CallRange \/ CallRangeTypeError
    \/ ExportOK \/ ExportFails \/ LoopDone
    \/ FinallyClose \/ FinallyCloseFails \/ FinallyNoClose

Spec == Init /\ [][Next]_vars

(* ------------------------- derived observations ------------------------ *)
Done == pc \in {"returned", "raised"}
Opened == presentation = "doc"
CountOf(seq, x) == Cardinality({k \in 1..Len(seq) : seq[k] = x})
Reported(m) == \E k \in 1..Len(msgs) : msgs[k] = m
NoErrorReported == \A k \in 1..Len(msgs) : msgs[k] \notin ErrorMsgs
Interval(a, b) == [k \in 1..(b - a + 1) |-> a + k - 1]

TypeOK ==
    /\ pc \in {"check_input", "makedirs", "dispatch", "open", "range", "pagesize",
               "geometry", "loop", "iter", "finally", "returned", "raised"}
    /\ total_slides \in 0..MaxSlides
    /\ count \in 0..MaxSlides

(* ------------------ reference arithmetic for the claims ---------------- *)
\* t is the rational x = <<n, d>> truncated toward zero, by inequalities
IsTrunc(t, x) ==
    IF x[1] >= 0
    THEN t * x[2] <= x[1] /\ x[1] < (t + 1) * x[2]
    ELSE (t - 1) * x[2] < x[1] /\ x[1] <= t * x[2]
\* t = floor(x)
IsFloor(t, x) == t * x[2] <= x[1] /\ x[1] < (t + 1) * x[2]
\* L is the larger of a and b
IsLongEdge(L, a, b) == L \in {a, b} /\ L >= a /\ L >= b

GeometryDone == pc \in {"loop", "iter"}
RangeDone == pc \in {"pagesize", "geometry", "loop", "iter"}
Landscape == slide_width[1] * slide_height[2] >= slide_height[1] * slide_width[2]
ExportFailed == Len(attempted) > Len(exported)

\* the call returned, no step the environment answers raised, and the
\* geometry is a valid image size
AllStepsSucceeded ==
    /\ pc = "returned"
    /\ pptx_exists
    /\ Opened
    /\ CountOf(calls, "PageSetup") = 1
    /\ slide_width[1] > 0
    /\ scale.kind # "nan"
    /\ target_w > 0 /\ target_h > 0
    /\ ~ExportFailed

(* ------------------------------- claims -------------------------------- *)
\* C1: when application init, document open and every export succeed on a
\* document of N >= 1 slides, a call without range exports exactly slides
\* 1..N, a call with range [s, e], 1 <= s <= e <= N, exports exactly slides
\* s..e, and the reported final count is the number of exported slides.
C1_ExportsRequestedSlides ==
    (/\ AllStepsSucceeded
     /\ total_slides >= 1
     /\ \/ rangeArg.kind = "none"
        \/ /\ rangeArg.kind = "list" /\ Len(rangeArg.elems) = 2
           /\ 1 <= rangeArg.elems[1]
           /\ rangeArg.elems[1] <= rangeArg.elems[2]
           /\ rangeArg.elems[2] <= total_slides)
    => LET s == IF rangeArg.kind = "none" THEN 1 ELSE rangeArg.elems[1]
           e == IF rangeArg.kind = "none" THEN total_slides ELSE rangeArg.elems[2]
       IN  /\ exported = Interval(s, e)
           /\ attempted = exported
           /\ count = e - s + 1
           /\ Reported("done")

\* C2: after the slide-range step, for a requested range [a, b] of integers
\* on a document with at least one slide, 1 <= start_slide <= end_slide <=
\* total_slides.
C2_RangeWithinBounds ==
    (RangeDone /\ total_slides >= 1 /\ rangeArg.kind = "list" /\ Len(rangeArg.elems) = 2)
    => (1 <= start_slide /\ start_slide <= end_slide /\ end_slide <= total_slides)

\* C3: when the document path does not exist, no output directory is
\* created, no call is made on the external application, and the call
\* returns after reporting "not found".
C3_MissingInputTouchesNothing ==
    ~pptx_exists =>
        /\ ~dirCreated
        /\ calls = <<>>
        /\ powerpoint = "None" /\ presentation = "None"
        /\ pc \in {"check_input", "returned"}
        /\ (Done => Reported("not_found"))

C3_Witness == pc = "returned" /\ ~pptx_exists /\ ~out_exists

\* C4: Close is called at most once, only on a document that Open returned,
\* as the last call of the topng call; and when the call ends after Open
\* succeeded, Close has been called exactly once, on every exit path.
C4_ClosedExactlyOnce ==
    /\ CountOf(calls, "Close") <= 1
    /\ (CountOf(calls, "Close") = 1 => Opened /\ Done /\ calls[Len(calls)] = "Close")
    /\ (Done /\ Opened => CountOf(calls, "Close") = 1)
    /\ (Done /\ ~Opened => CountOf(calls, "Close") = 0)

\* a slide export raised mid-loop, after one slide was saved, and the call ended
C4_Witness ==
    /\ Done /\ Opened
    /\ ExportFailed /\ Len(exported) >= 1
    /\ Reported("conversion_error")
    /\ CountOf(calls, "Close") = 1

\* C5: no failure escapes topng: whatever step fails, the call returns
\* normally and never ends by raising.
C5_NoFailureEscapes == pc # "raised"

\* C6: whenever the export step is reached with a positive multiplier
\* (fractional ones below 1 included), target_w and target_h are both
\* positive.
C6_TargetPositive ==
    (GeometryDone /\ scale.kind = "num" /\ scale.n > 0)
    => (target_w > 0 /\ target_h > 0)

\* the reference geometry with multiplier m = scale
ManualReference ==
    /\ IsTrunc(target_w, <<slide_width[1] * scale.n, slide_width[2] * scale.d>>)
    /\ IsTrunc(target_h, <<slide_height[1] * scale.n, slide_height[2] * scale.d>>)

\* the reference geometry from the screen's long edge
AutoReference ==
    \E L \in {screen_w, screen_h} :
        /\ IsLongEdge(L, screen_w, screen_h)
        /\ IF Landscape
           THEN /\ target_w = L
                /\ IsFloor(target_h, <<L * slide_height[1] * slide_width[2],
                                       slide_height[2] * slide_width[1]>>)
           ELSE /\ target_h = L
                /\ IsTrunc(target_w, <<L * slide_width[1] * slide_height[2],
                                       slide_width[2] * slide_height[1]>>)

\* C7 as stated: with a multiplier m given the target size is
\* (trunc(W*m), trunc(H*m)); with no multiplier and a screen of long edge L
\* it is (L, floor(L / aspect)) for aspect >= 1, (trunc(L * aspect), L) else.
C7_Original ==
    GeometryDone =>
        /\ (scale.kind = "num" => ManualReference)
        /\ (scale.kind = "none" /\ ~queryFailed => AutoReference)

\* C7 amended: a multiplier of 0 counts as no multiplier.  With a nonzero
\* multiplier m the target size is (trunc(W*m), trunc(H*m)); with no
\* multiplier or a multiplier of 0, and a screen of long edge L, it is
\* (L, floor(L / aspect)) for aspect >= 1 and (trunc(L * aspect), L) else.
C7_Amended ==
    GeometryDone =>
        /\ (scale.kind = "num" /\ scale.n # 0 => ManualReference)
        /\ (~queryFailed /\ (scale.kind = "none" \/ (scale.kind = "num" /\ scale.n = 0))
                => AutoReference)

\* scale = 0 was passed and the size came from the screen
C7_Witness ==
    /\ pc = "loop"
    /\ scale.kind = "num" /\ scale.n = 0
    /\ ~queryFailed
    /\ screen_w > screen_h
    /\ ~Landscape
    /\ target_h = screen_w

\* C8: with no multiplier and a failing screen query, topng is at the export
\* step with target size (trunc(2W), trunc(2H)), no error message reported,
\* and the document open and not closed.
C8_QueryFailureFallsBack ==
    (queryFailed /\ pc = "loop") =>
        /\ IsTrunc(target_w, <<2 * slide_width[1], slide_width[2]>>)
        /\ IsTrunc(target_h, <<2 * slide_height[1], slide_height[2]>>)
        /\ NoErrorReported
        /\ Reported("mode_fallback")
        /\ Opened
        /\ CountOf(calls, "Close") = 0

\* the query failed on a slide 3/2 points wide: target width trunc(2 * 3/2) = 3
C8_Witness ==
    /\ queryFailed /\ pc = "loop"
    /\ scale.kind = "none"
    /\ slide_width = <<3, 2>>
    /\ target_w = 3

Malformed(r) == r.kind = "tuple" \/ (r.kind = "list" /\ Len(r.elems) # 2)

\* C10: a range argument that is a tuple, or a list of other than two
\* elements, gives the effective range [1, total_slides] as an omitted range
\* does, with no clamping and no error reported up to the export step.
C10_MalformedRangeIgnored ==
    (RangeDone /\ Malformed(rangeArg)) =>
        /\ start_slide = 1
        /\ end_slide = total_slides
        /\ NoErrorReported

\* the tuple (2, 1) on a two-slide document: clamping would have changed both bounds
C10_Witness ==
    /\ pc = "pagesize"
    /\ rangeArg.kind = "tuple"
    /\ rangeArg.elems = <<2, 1>>
    /\ total_slides = 2
    /\ start_slide = 1 /\ end_slide = 2
====
